---- MODULE Spec2Model ----
(***************************************************************************)
(* Conway's Game of Life (src/script.js): the GameOfLife class, its grid   *)
(* algorithms (initGrid, countNeighbors, update, draw) and its run/stop    *)
(* controller (toggle, reset, gameLoop, the resize listener and the        *)
(* setTimeout -> requestAnimationFrame -> gameLoop chain).                  *)
(*                                                                         *)
(* A grid is a sequence of rows, each a sequence of BOOLEAN.  JavaScript   *)
(* indices are 0-based: the cell grid[r][c] of the code is g[r+1][c+1].    *)
(***************************************************************************)
EXTENDS Integers, Sequences, FiniteSets, TLC

VARIABLES innerWidth, innerHeight, canvasWidth, canvasHeight,
          isRunning, grid, canvas, timeouts, frames,
          lastOp, trace, updatedFrom, threw

vars == <<innerWidth, innerHeight, canvasWidth, canvasHeight,
          isRunning, grid, canvas, timeouts, frames,
          lastOp, trace, updatedFrom, threw>>

----------------------------------------------------------------------------
(* Bounds of the model *)

\* largest number of rows a viewport of the controller model gives
MaxViewRows == 2
\* largest number of rows of a grid of the grid model
MaxGridRows == 3
\* largest number of scheduled, not yet run callbacks
MaxPending == 2

----------------------------------------------------------------------------
(* CONFIG *)

CELL_SIZE == 10
\* the delay of setTimeout; the model lets a scheduled callback run at any
\* later moment
FRAME_DELAY == 500
\* 0.3, in hundredths, the unit the draws of Math.random() are modelled in
INITIAL_ALIVE_PROBABILITY == 30
COLORS == [n \in 0..3 |->
            CASE n = 0 -> "#9be9a8"
              [] n = 1 -> "#40c463"
              [] n = 2 -> "#30a14e"
              [] n = 3 -> "#216e39"]

\* the values Math.random() returns, in hundredths: ten equally likely
\* draws, the midpoints 0.05, 0.15, ..., 0.95 of the tenths of [0, 1)
RandomDraws == {10 * k + 5 : k \in 0..9}

----------------------------------------------------------------------------
(* JavaScript arithmetic *)

\* a % b of JavaScript for b > 0: the sign follows the dividend
JsRem(a, b) == IF a >= 0 THEN a % b ELSE 0 - ((0 - a) % b)

\* Math.floor(a / b) for a >= 0, b > 0
MathFloorDiv(a, b) == a \div b

\* Math.min
MathMin(a, b) == IF a <= b THEN a ELSE b

----------------------------------------------------------------------------
(* Grid construction *)

\* calculateGridDimensions with the height and the width exchanged
calculateGridDimensionsSwapped(w, h) ==
    [rows |-> MathFloorDiv(w, CELL_SIZE), cols |-> MathFloorDiv(h, CELL_SIZE)]

calculateGridDimensions(w, h) ==
    [rows |-> MathFloorDiv(h, CELL_SIZE), cols |-> MathFloorDiv(w, CELL_SIZE)]

\* one cell of initGrid from its own draw of Math.random()
randomCell(u) == u > INITIAL_ALIVE_PROBABILITY

\* the grids initGrid can produce for a viewport: every cell from its own draw
initGrid(w, h) ==
    LET d == calculateGridDimensions(w, h)
    IN  [1..d.rows -> [1..d.cols -> {randomCell(u) : u \in RandomDraws}]]

\* the cells (row, col), 0-based, in the order map and forEach visit them:
\* rows in index order, and the cells of a row in index order
RowMajor(g) ==
    IF Len(g) = 0 THEN <<>>
    ELSE [k \in 1..(Len(g) * Len(g[1])) |->
            <<(k - 1) \div Len(g[1]), (k - 1) % Len(g[1])>>]

----------------------------------------------------------------------------
(* countNeighbors *)

\* this.grid[newRow] is undefined, so that this.grid[newRow][newCol] throws
rowMissing(g, newRow) == ~(newRow \in 0..(Len(g) - 1))

\* this.grid[newRow][newCol] as a condition: undefined (a column index that
\* is NaN or out of range) is falsy
cellTruthy(g, newRow, newCol) ==
    /\ newCol \in 0..(Len(g[newRow + 1]) - 1)
    /\ g[newRow + 1][newCol + 1]

\* newRow of the loop body; the grid has at least one row here
wrapRow(g, row, i) == JsRem(row + i + Len(g), Len(g))

\* wrapCol with the "+ length" of the wrap left out
wrapColNoAdd(g, col, j) ==
    IF Len(g[1]) = 0 THEN -1 ELSE JsRem(col + j, Len(g[1]))

\* newCol of the loop body; x % 0 is NaN, modelled as -1 (never an index)
wrapCol(g, col, j) ==
    IF Len(g[1]) = 0 THEN -1 ELSE JsRem(col + j + Len(g[1]), Len(g[1]))

\* countNeighbors throws a TypeError: this.grid[0] is undefined (no rows),
\* or some this.grid[newRow] is
countNeighborsThrows(g, row, col) ==
    \/ Len(g) = 0
    \/ \E i \in -1..1 : rowMissing(g, wrapRow(g, row, i))

\* countLoop with the "continue" on i = 0, j = 0 left out
RECURSIVE countLoopNoSkip(_, _, _, _, _, _)
countLoopNoSkip(g, row, col, i, j, count) ==
    IF i > 1 THEN count
    ELSE IF j > 1 THEN countLoopNoSkip(g, row, col, i + 1, -1, count)
    ELSE LET newRow == wrapRow(g, row, i)
             newCol == wrapCol(g, col, j)
         IN  countLoopNoSkip(g, row, col, i, j + 1,
                 IF cellTruthy(g, newRow, newCol) THEN count + 1 ELSE count)

\* the two nested for loops, i outer and j inner, from (i, j) with count so far
RECURSIVE countLoop(_, _, _, _, _, _)
countLoop(g, row, col, i, j, count) ==
    IF i > 1 THEN count
    ELSE IF j > 1 THEN countLoop(g, row, col, i + 1, -1, count)
    ELSE IF i = 0 /\ j = 0 THEN countLoop(g, row, col, i, j + 1, count)
    ELSE LET newRow == wrapRow(g, row, i)
             newCol == wrapCol(g, col, j)
         IN  countLoop(g, row, col, i, j + 1,
                 IF cellTruthy(g, newRow, newCol) THEN count + 1 ELSE count)

\* the value countNeighbors returns when it does not throw
countNeighbors(g, row, col) == countLoop(g, row, col, -1, -1, 0)

----------------------------------------------------------------------------
(* update *)

\* nextCell with the death by underpopulation left out
nextCellSurvivesAlone(cell, neighbors) ==
    neighbors = 3 \/ (cell /\ neighbors <= 2)

\* nextCell with the birth of a dead cell left out
nextCellNoBirth(cell, neighbors) == cell /\ (neighbors = 3 \/ neighbors = 2)

\* the value of one cell of the next generation
nextCell(cell, neighbors) == neighbors = 3 \/ (cell /\ neighbors = 2)

\* gridReadByCallback of an update that writes into this.grid as it scans
gridReadInPlace(old, built) == built

\* the array this.grid names while the callbacks of map run, given the grid
\* the map started from and the rows built so far: this.grid is assigned
\* only when the outer map has returned
gridReadByCallback(old, built) == old

\* the callbacks of update applied to the cells in the given order; built
\* holds the new values of the cells visited so far
RECURSIVE updateVisiting(_, _, _, _)
updateVisiting(old, built, order, k) ==
    IF k > Len(order) THEN built
    ELSE LET row == order[k][1]
             col == order[k][2]
             neighbors ==
                 countNeighbors(gridReadByCallback(old, built), row, col)
         IN  updateVisiting(old,
                 [built EXCEPT ![row + 1][col + 1] =
                     nextCell(old[row + 1][col + 1], neighbors)],
                 order, k + 1)

\* the grid update assigns to this.grid
update(g) == updateVisiting(g, g, RowMajor(g), 1)

\* update that counts the neighbours of cell (0, 0) before it maps the grid
updateThrowsProbingFirstCell(g) == countNeighborsThrows(g, 0, 0)

\* update throws: one of its calls of countNeighbors does
updateThrows(g) ==
    \E k \in 1..Len(RowMajor(g)) :
        countNeighborsThrows(g, RowMajor(g)[k][1], RowMajor(g)[k][2])

----------------------------------------------------------------------------
(* draw *)

\* drawCell with row and col exchanged in the position
drawCellTransposed(row, col, neighbors) ==
    [fillStyle |-> COLORS[MathMin(3, neighbors)],
     x |-> row * CELL_SIZE, y |-> col * CELL_SIZE,
     w |-> CELL_SIZE - 1, h |-> CELL_SIZE - 1, radius |-> 2]

\* one call of drawCell: the fill style and the rounded rectangle
drawCell(row, col, neighbors) ==
    [fillStyle |-> COLORS[MathMin(3, neighbors)],
     x |-> col * CELL_SIZE, y |-> row * CELL_SIZE,
     w |-> CELL_SIZE - 1, h |-> CELL_SIZE - 1, radius |-> 2]

\* the cells draw calls drawCell for, in order
aliveCells(g) ==
    SelectSeq(RowMajor(g), LAMBDA c : g[c[1] + 1][c[2] + 1])

\* the number of cells draw paints before a call of countNeighbors throws
\* (all of them when none does)
RECURSIVE drawnBeforeThrow(_, _, _)
drawnBeforeThrow(g, cells, k) ==
    IF k > Len(cells) THEN Len(cells)
    ELSE IF countNeighborsThrows(g, cells[k][1], cells[k][2]) THEN k - 1
    ELSE drawnBeforeThrow(g, cells, k + 1)

drawThrows(g) == drawnBeforeThrow(g, aliveCells(g), 1) < Len(aliveCells(g))

\* the canvas after draw: cleared, then one drawCell per alive cell
draw(g) ==
    LET cells == aliveCells(g)
    IN  [k \in 1..drawnBeforeThrow(g, cells, 1) |->
            drawCell(cells[k][1], cells[k][2],
                     countNeighbors(g, cells[k][1], cells[k][2]))]

----------------------------------------------------------------------------
(* The controller: construction, the controls, the resize listener and the *)
(* timer chain.  lastOp names the handler that ran last, trace the calls   *)
(* it made in order, updatedFrom the grid its call of update started from  *)
(* (<<>> when it made none), threw whether it ended by an uncaught         *)
(* TypeError.                                                              *)

\* the state after the script has run: new GameOfLife(...) (isRunning,
\* initializeCanvas, bindEvents) and game.draw(), in a viewport w x h, g being
\* the grid initGrid has made
Constructed(w, h, g) ==
    /\ innerWidth = w
    /\ innerHeight = h
    /\ canvasWidth = w
    /\ canvasHeight = h
    /\ isRunning = FALSE
    /\ grid = g
    /\ canvas = draw(g)
    /\ timeouts = 0
    /\ frames = 0
    /\ lastOp = "construct"
    /\ trace = <<"initGrid", "draw">>
    /\ updatedFrom = <<>>
    /\ threw = FALSE

\* the states after the script has run in a viewport w x h
Construct(w, h) == \E g \in initGrid(w, h) : Constructed(w, h, g)

\* gameLoopBody without the setTimeout that schedules the next tick
gameLoopBodyNoReschedule(t) ==
    /\ grid' = update(grid)
    /\ canvas' = draw(grid')
    /\ updatedFrom' = <<grid>>
    /\ timeouts' = t
    /\ trace' = <<"update", "draw">>
    /\ threw' = FALSE

\* gameLoopBody with draw called before update
gameLoopBodyDrawsFirst(t) ==
    /\ grid' = update(grid)
    /\ canvas' = draw(grid)
    /\ updatedFrom' = <<grid>>
    /\ timeouts' = t + 1
    /\ trace' = <<"draw", "update", "setTimeout">>
    /\ threw' = FALSE

\* the body of gameLoop's if, with t pending timeouts: update, draw,
\* setTimeout
gameLoopBody(t) ==
    IF updateThrows(grid)
    THEN /\ grid' = grid
         /\ canvas' = canvas
         /\ timeouts' = t
         /\ trace' = <<"update">>
         /\ updatedFrom' = <<>>
         /\ threw' = TRUE
    ELSE /\ grid' = update(grid)
         /\ canvas' = draw(grid')
         /\ updatedFrom' = <<grid>>
         /\ IF drawThrows(grid')
            THEN /\ timeouts' = t
                 /\ trace' = <<"update", "draw">>
                 /\ threw' = TRUE
            ELSE /\ timeouts' = t + 1
                 /\ trace' = <<"update", "draw", "setTimeout">>
                 /\ threw' = FALSE

\* gameLoop without the test of this.isRunning
gameLoopUnguarded(running, t) == gameLoopBody(t)

\* gameLoop, called with this.isRunning = running and t pending timeouts
gameLoop(running, t) ==
    IF running
    THEN gameLoopBody(t)
    ELSE /\ grid' = grid
         /\ canvas' = canvas
         /\ timeouts' = t
         /\ trace' = <<>>
         /\ updatedFrom' = <<>>
         /\ threw' = FALSE

\* toggle that sets this.isRunning instead of flipping it
ToggleAlwaysStarts(cap) ==
    /\ isRunning \/ timeouts + frames < cap
    /\ isRunning' = TRUE
    /\ gameLoop(isRunning', timeouts)
    /\ lastOp' = "toggle"
    /\ UNCHANGED <<innerWidth, innerHeight, canvasWidth, canvasHeight, frames>>

\* window.toggleGame: toggle; a call that would schedule a callback is
\* taken only while fewer than cap callbacks are pending
ToggleCap(cap) ==
    /\ isRunning \/ timeouts + frames < cap
    /\ isRunning' = ~isRunning
    /\ gameLoop(isRunning', timeouts)
    /\ lastOp' = "toggle"
    /\ UNCHANGED <<innerWidth, innerHeight, canvasWidth, canvasHeight, frames>>

Toggle == ToggleCap(MaxPending)

\* reset without the assignment this.isRunning = false
ResetKeepsRunning ==
    /\ isRunning' = isRunning
    /\ grid' \in initGrid(innerWidth, innerHeight)
    /\ canvas' = draw(grid')
    /\ threw' = drawThrows(grid')
    /\ lastOp' = "reset"
    /\ trace' = <<"initGrid", "draw">>
    /\ updatedFrom' = <<>>
    /\ UNCHANGED <<innerWidth, innerHeight, canvasWidth, canvasHeight,
                   timeouts, frames>>

\* window.resetGame: reset
Reset ==
    /\ isRunning' = FALSE
    /\ grid' \in initGrid(innerWidth, innerHeight)
    /\ canvas' = draw(grid')
    /\ threw' = drawThrows(grid')
    /\ lastOp' = "reset"
    /\ trace' = <<"initGrid", "draw">>
    /\ updatedFrom' = <<>>
    /\ UNCHANGED <<innerWidth, innerHeight, canvasWidth, canvasHeight,
                   timeouts, frames>>

\* a resize listener that also pauses the game
ResizePauses(w, h) ==
    /\ innerWidth' = w
    /\ innerHeight' = h
    /\ canvasWidth' = w
    /\ canvasHeight' = h
    /\ grid' \in initGrid(w, h)
    /\ canvas' = <<>>
    /\ threw' = FALSE
    /\ lastOp' = "resize"
    /\ trace' = <<"initGrid">>
    /\ updatedFrom' = <<>>
    /\ isRunning' = FALSE
    /\ UNCHANGED <<timeouts, frames>>

\* the resize listener, the viewport now being w x h: initializeCanvas.
\* Assigning canvas.width / canvas.height leaves the canvas blank.
Resize(w, h) ==
    /\ innerWidth' = w
    /\ innerHeight' = h
    /\ canvasWidth' = w
    /\ canvasHeight' = h
    /\ grid' \in initGrid(w, h)
    /\ canvas' = <<>>
    /\ threw' = FALSE
    /\ lastOp' = "resize"
    /\ trace' = <<"initGrid">>
    /\ updatedFrom' = <<>>
    /\ UNCHANGED <<isRunning, timeouts, frames>>

\* the callback given to setTimeout runs: requestAnimationFrame(...)
TimeoutFires ==
    /\ timeouts > 0
    /\ timeouts' = timeouts - 1
    /\ frames' = frames + 1
    /\ threw' = FALSE
    /\ lastOp' = "timeout"
    /\ trace' = <<"requestAnimationFrame">>
    /\ updatedFrom' = <<>>
    /\ UNCHANGED <<innerWidth, innerHeight, canvasWidth, canvasHeight,
                   isRunning, grid, canvas>>

\* the callback given to requestAnimationFrame runs: gameLoop
FrameFires ==
    /\ frames > 0
    /\ frames' = frames - 1
    /\ gameLoop(isRunning, timeouts)
    /\ lastOp' = "frame"
    /\ UNCHANGED <<innerWidth, innerHeight, canvasWidth, canvasHeight,
                   isRunning>>

----------------------------------------------------------------------------
(* The controller model: viewports of up to MaxViewRows rows and 1 column,  *)
(* zero-sized ones and ones that are no multiple of CELL_SIZE included.     *)

ViewportWidths == {0, 15}
ViewportHeights ==
    {0} \cup {CELL_SIZE * k + 5 * (k % 2) : k \in 1..MaxViewRows}

Init == \E w \in ViewportWidths, h \in ViewportHeights : Construct(w, h)

Next ==
    \/ Toggle
    \/ Reset
    \/ \E w \in ViewportWidths, h \in ViewportHeights : Resize(w, h)
    \/ TimeoutFires
    \/ FrameFires

Spec == Init /\ [][Next]_vars

\* the controller model with timers that fire: a callback given to
\* setTimeout or to requestAnimationFrame is run after a finite time
SpecLive == Spec /\ WF_vars(TimeoutFires) /\ WF_vars(FrameFires)

----------------------------------------------------------------------------
(* The grid model: the game constructed in every viewport of rows x cols    *)
(* cells with 1 <= rows <= MaxGridRows and 1 <= cols <= 3, on every grid    *)
(* initGrid can give, then run and stopped by the toggle control.           *)

GridColumnCounts == {1, 2, 3}
GridViewports == (1..MaxGridRows) \X GridColumnCounts

GridInit ==
    \E v \in GridViewports : Construct(CELL_SIZE * v[2], CELL_SIZE * v[1] + 5)

GridToggle == ToggleCap(1)

GridNext ==
    \/ GridToggle
    \/ TimeoutFires
    \/ FrameFires

SpecGrid == GridInit /\ [][GridNext]_vars

----------------------------------------------------------------------------
(* The pattern model: the game constructed in viewports of 4..MaxPatternSide *)
(* rows and columns, on the grids of initGrid that hold one 2x2 block (at    *)
(* any position, also across the edges) or one alive cell and nothing else,  *)
(* then run and stopped by the toggle control.                               *)

MaxPatternSide == 5

\* the rows x cols grid whose alive cells are those of the set alive (0-based)
GridOf(rows, cols, alive) ==
    [r \in 1..rows |-> [c \in 1..cols |-> <<r - 1, c - 1>> \in alive]]

\* the cells of the 2x2 block whose top-left cell is (r, c), on the torus
BlockCells(rows, cols, r, c) ==
    {<<r, c>>, <<r, (c + 1) % cols>>,
     <<(r + 1) % rows, c>>, <<(r + 1) % rows, (c + 1) % cols>>}

PatternGrids(rows, cols) ==
    {GridOf(rows, cols, BlockCells(rows, cols, r, c)) :
        r \in 0..(rows - 1), c \in 0..(cols - 1)}
    \cup {GridOf(rows, cols, {<<r, c>>}) :
        r \in 0..(rows - 1), c \in 0..(cols - 1)}

PatternInit ==
    \E rows \in 4..MaxPatternSide, cols \in 4..MaxPatternSide :
        \E g \in PatternGrids(rows, cols) :
            /\ g \in initGrid(CELL_SIZE * cols, CELL_SIZE * rows)
            /\ Constructed(CELL_SIZE * cols, CELL_SIZE * rows, g)

SpecPattern == PatternInit /\ [][GridNext]_vars

----------------------------------------------------------------------------
(* Properties of the grid algorithms, checked under SpecGrid *)

\* the grids the properties name
LGrid == <<<<TRUE, TRUE, FALSE>>, <<TRUE, FALSE, FALSE>>,
           <<FALSE, FALSE, FALSE>>>>
CornerGrid == <<<<TRUE, FALSE, FALSE>>, <<FALSE, FALSE, FALSE>>,
                <<FALSE, FALSE, FALSE>>>>

\* the handler that ran last applied update (to updatedFrom[1])
Stepped == updatedFrom # <<>>

\* C1: after one step every cell (r, c) is alive iff n = 3, or it was alive
\* and n = 2, n being countNeighbors(r, c) on the grid before the step; the
\* step keeps the shape of the grid.
C1_StepRule ==
    Stepped =>
        LET old == updatedFrom[1]
        IN  /\ Len(grid) = Len(old)
            /\ \A r \in 1..Len(old) :
                  /\ Len(grid[r]) = Len(old[r])
                  /\ \A c \in 1..Len(old[r]) :
                        LET n == countNeighbors(old, r - 1, c - 1)
                        IN  grid[r][c] <=> (n = 3 \/ (old[r][c] /\ n = 2))

\* C1 witness: a step of the 3x3 grid with the L at (0,0), (0,1), (1,0) has
\* made (1,1), which had exactly 3 alive neighbours, alive
C1_Witness ==
    /\ Stepped
    /\ updatedFrom[1] = LGrid
    /\ countNeighbors(LGrid, 1, 1) = 3
    /\ grid[2][2]

\* traversal orders other than the one map uses
ColMajor(g) ==
    IF Len(g) = 0 THEN <<>>
    ELSE [k \in 1..(Len(g) * Len(g[1])) |->
            <<(k - 1) % Len(g), (k - 1) \div Len(g)>>]
Reversed(order) == [k \in 1..Len(order) |-> order[Len(order) + 1 - k]]
\* the cells at odd positions of the row-major order, then the others
OddsFirst(g) ==
    LET o == RowMajor(g)
        odd == SelectSeq([k \in 1..Len(o) |-> k], LAMBDA k : k % 2 = 1)
        even == SelectSeq([k \in 1..Len(o) |-> k], LAMBDA k : k % 2 = 0)
    IN  [k \in 1..Len(o) |->
            IF k <= Len(odd) THEN o[odd[k]] ELSE o[even[k - Len(odd)]]]
TraversalOrders(g) ==
    {RowMajor(g), ColMajor(g), Reversed(RowMajor(g)), Reversed(ColMajor(g)),
     OddsFirst(g)}

\* a scan that writes every new value into the grid it reads from
RECURSIVE sequentialScan(_, _, _)
sequentialScan(g, order, k) ==
    IF k > Len(order) THEN g
    ELSE LET r == order[k][1] + 1
             c == order[k][2] + 1
             n == countNeighbors(g, r - 1, c - 1)
         IN  sequentialScan(
                 [g EXCEPT ![r][c] = (n = 3 \/ (g[r][c] /\ n = 2))],
                 order, k + 1)

\* C2: a step gives the same new grid whatever the order its cells are
\* visited in (row-major, column-major, either reversed, interleaved): every
\* cell is computed from the previous generation only.
C2_OrderIndependent ==
    Stepped =>
        \A order \in TraversalOrders(updatedFrom[1]) :
            grid = updateVisiting(updatedFrom[1], updatedFrom[1], order, 1)

\* C2 witness: a step of a 3x3 grid on which in-place scans in row-major and
\* in column-major order give two grids, both other than the step's result
C2_Witness ==
    /\ Stepped
    /\ Len(grid) = 3
    /\ Len(grid[1]) = 3
    /\ LET old == updatedFrom[1]
           byRow == sequentialScan(old, RowMajor(old), 1)
           byCol == sequentialScan(old, ColMajor(old), 1)
       IN  byRow # byCol /\ grid # byRow /\ grid # byCol

\* the offsets (i, j) of the 8 neighbours
Offsets == {o \in (-1..1) \X (-1..1) : o # <<0, 0>>}

\* the cells of a grid, 0-based
Cells(g) == {<<r, c>> : r \in 0..(Len(g) - 1), c \in 0..(Len(g[1]) - 1)}

\* C3: countNeighbors(r, c) is the number of offsets (i, j) other than (0,0)
\* whose cell ((r+i+rows) mod rows, (c+j+cols) mod cols) is alive; so cell
\* (0, c) counts (rows-1, c) and cell (rows-1, c) counts (0, c), and in the
\* 3x3 grid whose only alive cell is (0,0), countNeighbors(2, 2) = 1.
C3_ToroidalCount ==
    LET rows == Len(grid)
        cols == Len(grid[1])
    IN  /\ \A cell \in Cells(grid) :
              countNeighbors(grid, cell[1], cell[2]) =
                  Cardinality({o \in Offsets :
                      grid[((cell[1] + o[1] + rows) % rows) + 1]
                          [((cell[2] + o[2] + cols) % cols) + 1]})
        /\ \A c \in 0..(cols - 1) :
              /\ grid[rows][c + 1] => countNeighbors(grid, 0, c) >= 1
              /\ grid[1][c + 1] => countNeighbors(grid, rows - 1, c) >= 1
        /\ grid = CornerGrid => countNeighbors(grid, 2, 2) = 1

\* C3 witness: the 3x3 grid whose only alive cell is (0,0); every cell of
\* the last row and the last column next to the corner counts it
C3_Witness ==
    /\ grid = CornerGrid
    /\ countNeighbors(grid, 2, 2) = 1
    /\ countNeighbors(grid, 2, 0) = 1
    /\ countNeighbors(grid, 0, 2) = 1

\* C4: on every grid with rows >= 1 and cols >= 1 (1x1, 1xN and 2x2
\* included) and every cell in range, countNeighbors does not throw and
\* returns an integer in 0..8.
C4_CountInRange ==
    \A cell \in Cells(grid) :
        /\ ~countNeighborsThrows(grid, cell[1], cell[2])
        /\ countNeighbors(grid, cell[1], cell[2]) \in 0..8

\* C4 witness: the 1x1 grid whose cell is alive; the cell reaches itself
\* through all 8 offsets
C4_Witness ==
    /\ grid = <<<<TRUE>>>>
    /\ ~countNeighborsThrows(grid, 0, 0)
    /\ countNeighbors(grid, 0, 0) = 8

----------------------------------------------------------------------------
(* Properties of the controller, checked under Spec *)

\* the callbacks scheduled and not yet run: each is one tick to come
pendingTicks == timeouts + frames

\* the grid has the shape the viewport w x h gives
HasViewportShape(g, w, h) ==
    /\ Len(g) = h \div CELL_SIZE
    /\ \A r \in 1..Len(g) : Len(g[r]) = w \div CELL_SIZE

\* the number of times a handler's trace holds a call
CallCount(tr, call) == Cardinality({k \in 1..Len(tr) : tr[k] = call})

\* C5: in every reachable state at most one tick is scheduled and not yet
\* run.
C5_SingleTick == pendingTicks <= 1

C7_ToggleFlips ==
    /\ ~isRunning
    /\ [][lastOp' = "toggle" =>
             /\ isRunning' = ~isRunning
             /\ isRunning' =>
                   /\ grid' = update(grid)
                   /\ trace' = <<"update", "draw", "setTimeout">>
                   /\ pendingTicks' = pendingTicks + 1
             /\ ~isRunning' =>
                   /\ grid' = grid
                   /\ canvas' = canvas
                   /\ trace' = <<>>
                   /\ pendingTicks' = pendingTicks]_vars

\* C7 witness: toggle has stopped a Running controller whose tick is still
\* pending
C7_Witness ==
    /\ lastOp = "toggle"
    /\ ~isRunning
    /\ pendingTicks = 1
    /\ Len(grid) > 0

\* C8: the control that starts the game, invoked on a Running controller,
\* and the control that stops it, invoked on a Stopped one, leave the run
\* state and the grid unchanged and schedule no tick.  (toggleGame is the
\* only control that starts or stops.)
C8_StartStopIdempotent ==
    /\ [][(lastOp' = "toggle" /\ isRunning) =>
             /\ isRunning'
             /\ grid' = grid
             /\ pendingTicks' = pendingTicks]_vars
    /\ [][(lastOp' = "toggle" /\ ~isRunning) =>
             /\ ~isRunning'
             /\ grid' = grid
             /\ pendingTicks' = pendingTicks]_vars

\* C9: reset leaves the controller Stopped, replaces the grid by one of the
\* shape the current viewport gives, renders it once and applies no step;
\* and while Stopped only toggle applies a step.
C9_Reset ==
    /\ [][lastOp' = "reset" =>
             /\ ~isRunning'
             /\ grid' \in initGrid(innerWidth', innerHeight')
             /\ HasViewportShape(grid', innerWidth', innerHeight')
             /\ CallCount(trace', "draw") = 1
             /\ canvas' = draw(grid')
             /\ CallCount(trace', "update") = 0
             /\ updatedFrom' = <<>>
             /\ pendingTicks' = pendingTicks]_vars
    /\ [][(~isRunning /\ lastOp' # "toggle") => updatedFrom' = <<>>]_vars

\* C9 witness: reset has run on a Running controller with a pending tick
\* and left a fresh non-empty grid, Stopped
C9_Witness ==
    /\ lastOp = "reset"
    /\ ~isRunning
    /\ pendingTicks > 0
    /\ Len(grid) > 0
    /\ HasViewportShape(grid, innerWidth, innerHeight)

\* C10: a resize replaces the grid by a freshly initialized one of the
\* shape the new viewport gives and leaves the run state and the pending
\* callbacks as they were.
C10_Resize ==
    [][lastOp' = "resize" =>
          /\ grid' \in initGrid(innerWidth', innerHeight')
          /\ HasViewportShape(grid', innerWidth', innerHeight')
          /\ updatedFrom' = <<>>
          /\ isRunning' = isRunning
          /\ timeouts' = timeouts
          /\ frames' = frames]_vars

\* C10 witness: a resize to another viewport has happened while Running
\* with a tick pending, and the controller is still Running
C10_Witness ==
    /\ lastOp = "resize"
    /\ isRunning
    /\ pendingTicks > 0
    /\ Len(grid) > 0
    /\ HasViewportShape(grid, innerWidth, innerHeight)

----------------------------------------------------------------------------
(* Properties of grid initialization *)

\* the handler that ran last left a grid fresh from initGrid
Fresh == lastOp \in {"construct", "reset", "resize"}

\* the share, in hundredths, of the draws of Math.random() that give a cell
\* the value v
DrawShare(v) ==
    (100 * Cardinality({u \in RandomDraws : randomCell(u) = v}))
        \div Cardinality(RandomDraws)

\* C11: every cell of a freshly initialized grid comes from one uniform
\* draw, and is alive for draws of measure aliveProbability (30 in 100) and
\* dead for the rest: the share of the draws that give the cell its state is
\* aliveProbability for an alive cell and 1 - aliveProbability for a dead one.
C11_AliveProbability ==
    Fresh =>
        \A r \in 1..Len(grid) : \A c \in 1..Len(grid[r]) :
            DrawShare(grid[r][c]) =
                IF grid[r][c] THEN INITIAL_ALIVE_PROBABILITY
                ELSE 100 - INITIAL_ALIVE_PROBABILITY

----------------------------------------------------------------------------
(* Properties of the tick *)

\* the step taken is a tick that ran while Running: gameLoop called by
\* toggle or by the animation-frame callback with this.isRunning true
RunningTick == lastOp' \in {"toggle", "frame"} /\ isRunning'

\* C12: every tick that runs while Running makes, in this order and once
\* each, one step that replaces the grid, one render of the grid after the
\* step, and one scheduling of the next tick.
C12_TickOrder ==
    [][RunningTick =>
          /\ trace' = <<"update", "draw", "setTimeout">>
          /\ updatedFrom' = <<grid>>
          /\ grid' = update(grid)
          /\ canvas' = draw(grid')
          /\ timeouts' = timeouts + 1
          /\ ~threw']_vars

\* C12 witness: a tick run by the animation-frame callback has changed a
\* non-empty grid, and the canvas shows the new grid, not the old one
C12_Witness ==
    /\ lastOp = "frame"
    /\ isRunning
    /\ trace = <<"update", "draw", "setTimeout">>
    /\ Stepped
    /\ Len(grid) > 0
    /\ grid # updatedFrom[1]
    /\ canvas = draw(grid)
    /\ canvas # draw(updatedFrom[1])

----------------------------------------------------------------------------
(* Properties of the block and of the single cell, checked under            *)
(* SpecPattern                                                              *)

\* the alive cells of a grid, 0-based
AliveSet(g) == {cell \in Cells(g) : g[cell[1] + 1][cell[2] + 1]}

\* g is at least 4x4 and holds one 2x2 block and nothing else
IsBlock(g) ==
    /\ Len(g) >= 4
    /\ Len(g[1]) >= 4
    /\ \E cell \in Cells(g) :
          AliveSet(g) = BlockCells(Len(g), Len(g[1]), cell[1], cell[2])

\* g is at least 4x4 and holds one alive cell and nothing else
IsSingle(g) ==
    /\ Len(g) >= 4
    /\ Len(g[1]) >= 4
    /\ Cardinality(AliveSet(g)) = 1

\* C13: in a grid of at least 4x4 that holds a 2x2 block and nothing else,
\* every block cell has exactly 3 alive neighbours, every other cell at most
\* 2, and a step returns the same grid.
C13_BlockIsStable ==
    /\ IsBlock(grid) =>
          \A cell \in Cells(grid) :
              IF cell \in AliveSet(grid)
              THEN countNeighbors(grid, cell[1], cell[2]) = 3
              ELSE countNeighbors(grid, cell[1], cell[2]) <= 2
    /\ (Stepped /\ IsBlock(updatedFrom[1])) => grid = updatedFrom[1]

\* C13 witness: a step has been applied to the 4x4 grid whose block lies
\* across the corner (cells (3,3), (3,0), (0,3), (0,0)) and has left it as
\* it was
C13_Witness ==
    /\ Stepped
    /\ updatedFrom[1] = GridOf(4, 4, BlockCells(4, 4, 3, 3))
    /\ grid = updatedFrom[1]
    /\ AliveSet(grid) = {<<3, 3>>, <<3, 0>>, <<0, 3>>, <<0, 0>>}

\* C14: in a grid larger than 3x3 whose only alive cell is one cell, at any
\* position, that cell has 0 alive neighbours, and a step gives the
\* all-dead grid.
C14_SingleCellDies ==
    /\ IsSingle(grid) =>
          \A cell \in AliveSet(grid) :
              countNeighbors(grid, cell[1], cell[2]) = 0
    /\ (Stepped /\ IsSingle(updatedFrom[1])) =>
          /\ AliveSet(grid) = {}
          /\ Len(grid) = Len(updatedFrom[1])
          /\ Len(grid[1]) = Len(updatedFrom[1][1])

\* C14 witness: a step has been applied to the 4x5 grid whose only alive
\* cell is the corner (0,0), and no cell is alive
C14_Witness ==
    /\ Stepped
    /\ updatedFrom[1] = GridOf(4, 5, {<<0, 0>>})
    /\ AliveSet(grid) = {}
    /\ Len(grid) = 4

----------------------------------------------------------------------------
(* Properties of the render, checked under SpecGrid *)

\* the handler that ran last has rendered the grid
Rendered == \E k \in 1..Len(trace) : trace[k] = "draw"

\* the draws on the canvas at the pixel offset of cell (r, c)
DrawsAt(r, c) ==
    {k \in 1..Len(canvas) :
        canvas[k].x = c * CELL_SIZE /\ canvas[k].y = r * CELL_SIZE}

\* the colour bucket of a neighbour count: 0, 1, 2, or 3 for 3 and more
Bucket(n) == IF n >= 3 THEN 3 ELSE n

\* C15: a render emits exactly one draw per alive cell and none for a dead
\* cell; the draw of cell (r, c) is at (c*cellSize, r*cellSize), of size
\* (cellSize-1) x (cellSize-1), in the colour of bucket min(3, n), n being
\* countNeighbors(r, c) on the grid rendered.
C15_Render ==
    Rendered =>
        /\ Len(canvas) = Cardinality(AliveSet(grid))
        /\ \A cell \in Cells(grid) :
              IF cell \in AliveSet(grid)
              THEN /\ Cardinality(DrawsAt(cell[1], cell[2])) = 1
                   /\ \A k \in DrawsAt(cell[1], cell[2]) :
                         /\ canvas[k].w = CELL_SIZE - 1
                         /\ canvas[k].h = CELL_SIZE - 1
                         /\ canvas[k].fillStyle =
                               COLORS[Bucket(countNeighbors(grid, cell[1],
                                                            cell[2]))]
              ELSE DrawsAt(cell[1], cell[2]) = {}

\* C15 witness: a grid has been rendered that has a dead cell and, off the
\* diagonal, an alive cell with more than 3 alive neighbours, drawn in the
\* colour of bucket 3
C15_Witness ==
    /\ Rendered
    /\ AliveSet(grid) # Cells(grid)
    /\ \E a \in AliveSet(grid) :
          /\ countNeighbors(grid, a[1], a[2]) > 3
          /\ a[1] # a[2]
          /\ \E k \in DrawsAt(a[1], a[2]) : canvas[k].fillStyle = "#216e39"

----------------------------------------------------------------------------
(* Liveness of the loop, checked under SpecLive *)

\* the step taken is a tick run by the animation-frame callback
FrameTick == lastOp' = "frame" /\ updatedFrom' # <<>>

\* C16: while the controller is Running a callback is always pending, and
\* if from some moment on it stays Running (no stop by toggle, no reset;
\* resizes allowed) and the timers fire, then ticks happen again and again:
\* every tick is followed by another one.
C16_LoopLives ==
    /\ [](isRunning => pendingTicks >= 1)
    /\ (<>[]isRunning) => []<><<FrameTick>>_vars

\* C16 witness: on a Running controller the animation-frame callback has
\* run a tick of a non-empty grid and the next one is scheduled
C16_Witness ==
    /\ isRunning
    /\ lastOp = "frame"
    /\ Stepped
    /\ timeouts >= 1
    /\ Len(grid) > 0

----------------------------------------------------------------------------
(* Shape of the grid, checked under Spec *)

\* C17: in every reachable state the grid is rectangular, with
\* floor(innerHeight / CELL_SIZE) rows of floor(innerWidth / CELL_SIZE)
\* cells, the viewport being that of the last construction, reset or
\* resize; and a step leaves the shape of the grid as it was.
C17_Shape ==
    /\ Len(grid) = innerHeight \div CELL_SIZE
    /\ \A r \in 1..Len(grid) : Len(grid[r]) = innerWidth \div CELL_SIZE
    /\ Stepped =>
          /\ Len(grid) = Len(updatedFrom[1])
          /\ \A r \in 1..Len(grid) : Len(grid[r]) = Len(updatedFrom[1][r])

\* C17 witness: a tick has stepped the 2x1 grid of a viewport 15 wide and
\* 20 high, which is no multiple of the cell size
C17_Witness ==
    /\ Stepped
    /\ lastOp = "frame"
    /\ innerWidth = 15
    /\ innerHeight = 20
    /\ Len(grid) = 2
    /\ Len(grid[1]) = 1
    /\ Len(grid[2]) = 1

----------------------------------------------------------------------------
(* Zero-sized viewports, checked under Spec *)

\* the viewport gives no row or no column
ZeroSized ==
    innerHeight \div CELL_SIZE = 0 \/ innerWidth \div CELL_SIZE = 0

\* C18: with a zero-sized viewport no handler (construction, reset, resize,
\* tick) ends by an error, the grid has no cell and stays so under a step,
\* nothing is drawn, and neither update nor draw calls countNeighbors.
C18_ZeroViewport ==
    ZeroSized =>
        /\ ~threw
        /\ \A r \in 1..Len(grid) : Len(grid[r]) = 0
        /\ RowMajor(grid) = <<>>
        /\ aliveCells(grid) = <<>>
        /\ ~updateThrows(grid)
        /\ ~drawThrows(grid)
        /\ canvas = <<>>
        /\ Stepped => grid = updatedFrom[1]

\* C18 witness: in a viewport of height 0 a tick has run on the grid
\* without rows, completed, and scheduled the next tick
C18_Witness ==
    /\ innerHeight = 0
    /\ grid = <<>>
    /\ lastOp = "frame"
    /\ Stepped
    /\ trace = <<"update", "draw", "setTimeout">>
    /\ ~threw

----------------------------------------------------------------------------
(* The canvas between events, checked under Spec *)

\* C19: between events the grid rendered last is the current grid: the
\* canvas holds the render of the current grid, every handler that replaces
\* the grid (construction, tick, reset, resize) having rendered the new one.
C19_CanvasShowsGrid == canvas = draw(grid)

====
